---- MODULE Spec2Model ----
(***************************************************************************)
(* Model of src/app.py: the WhatsApp scheduling bot.                       *)
(*   GoogleCalendarTool._get_free_slots   (date resolver, slot generator,  *)
(*                                         conflict marker)                *)
(*   GoogleCalendarTool._run              (create / cancel)                *)
(*   GoogleCalendarTool._encontrar_evento_por_hora   (booking locator)     *)
(*   processar_mensagem, webhook          (message handler, HTTP route)    *)
(* The calendar provider is the environment: a set of bookings with the    *)
(* events.list / insert / delete calls the code makes on it. So are the    *)
(* delivery gateway, which takes a message or fails, and the extractor.    *)
(***************************************************************************)
EXTENDS Integers, Sequences, FiniteSets, TLC

VARIABLES
    clock,      \* datetime.now().astimezone(): the aware local "now"
    calendar,   \* the provider's bookings: set of [id, summary, start, end]
    nextId,     \* the provider's next fresh event id
    pending,    \* the call or post that has been made and not yet run
    op,         \* the call that ran last: its inputs and what it went through
    calls,      \* the provider calls that call made, in order
    result,     \* what that call returned (or that it raised)
    prev        \* the booking the call before the pending one created, if any

vars == <<clock, calendar, nextId, pending, op, calls, result, prev>>

(***************************************************************************)
(* Bounds of the model and constants of the program.                       *)
(***************************************************************************)
FirstYear == 2023
NumYears == 2
MaxDayInput == 32
MaxMonthInput == 13
MaxEvents == 2
MaxBookings == 3
MaxIds == 2

OpenHour == 8
CloseHour == 19
SlotHours == 1
ToleranceMinutes == 30
SundayWeekday == 6
DefaultDurationHours == 1
SaoPauloOffset == -180

(***************************************************************************)
(* Python datetime: proleptic Gregorian dates, replace(), ordering.        *)
(* A datetime is [year, month, day, hour, minute, aware, off]: off is the  *)
(* UTC offset in minutes of an aware value, 0 in a naive one.              *)
(***************************************************************************)
IsLeap(y) == (y % 4 = 0) /\ ((y % 100 # 0) \/ (y % 400 = 0))

DaysInMonth(y, m) ==
    IF m = 2 THEN (IF IsLeap(y) THEN 29 ELSE 28)
    ELSE IF m \in {4, 6, 9, 11} THEN 30 ELSE 31

ValidDate(y, m, d) ==
    /\ y \in 1..9999
    /\ m \in 1..12
    /\ d \in 1..DaysInMonth(y, m)

RECURSIVE DaysBeforeMonth(_, _)
DaysBeforeMonth(y, m) ==
    IF m <= 1 THEN 0 ELSE DaysBeforeMonth(y, m - 1) + DaysInMonth(y, m - 1)

DaysBeforeYear(y) ==
    LET p == y - 1 IN p * 365 + (p \div 4) - (p \div 100) + (p \div 400)

ToOrdinal(dt) == DaysBeforeYear(dt.year) + DaysBeforeMonth(dt.year, dt.month) + dt.day

\* datetime.weekday(): Monday is 0, Sunday is 6
Weekday(dt) == (ToOrdinal(dt) + 6) % 7

EpochOrdinal == DaysBeforeYear(FirstYear)

\* the instant of an aware datetime, in minutes since 1 Jan FirstYear UTC
Instant(dt) ==
    (ToOrdinal(dt) - EpochOrdinal) * 1440 + dt.hour * 60 + dt.minute - dt.off

\* the wall-clock reading, which is what two datetimes of one tzinfo compare by
WallKey(dt) ==
    (ToOrdinal(dt) - EpochOrdinal) * 1440 + dt.hour * 60 + dt.minute

DtLess(a, b) == WallKey(a) < WallKey(b)

Raised == [ok |-> FALSE]
Returned(v) == [ok |-> TRUE, value |-> v]

\* datetime.replace(year=, month=, day=): ValueError when the date does not exist
ReplaceDate(dt, y, m, d) ==
    IF ValidDate(y, m, d)
    THEN Returned([dt EXCEPT !.year = y, !.month = m, !.day = d])
    ELSE Raised

ReplaceTime(dt, h, mi) == [dt EXCEPT !.hour = h, !.minute = mi]

\* datetime + timedelta(minutes=n), carrying into the date
RECURSIVE AddDays(_, _)
AddDays(dt, n) ==
    IF n = 0 THEN dt
    ELSE IF n > 0 THEN
        IF dt.day < DaysInMonth(dt.year, dt.month)
        THEN AddDays([dt EXCEPT !.day = dt.day + 1], n - 1)
        ELSE IF dt.month < 12
        THEN AddDays([dt EXCEPT !.day = 1, !.month = dt.month + 1], n - 1)
        ELSE AddDays([dt EXCEPT !.day = 1, !.month = 1, !.year = dt.year + 1], n - 1)
    ELSE
        IF dt.day > 1
        THEN AddDays([dt EXCEPT !.day = dt.day - 1], n + 1)
        ELSE IF dt.month > 1
        THEN AddDays([dt EXCEPT !.day = DaysInMonth(dt.year, dt.month - 1),
                                !.month = dt.month - 1], n + 1)
        ELSE AddDays([dt EXCEPT !.day = 31, !.month = 12, !.year = dt.year - 1], n + 1)

AddMinutes(dt, n) ==
    LET total == dt.hour * 60 + dt.minute + n
        days  == IF total >= 0 THEN total \div 1440 ELSE -((1439 - total) \div 1440)
        rest  == total - days * 1440
    IN  [AddDays(dt, days) EXCEPT !.hour = rest \div 60, !.minute = rest % 60]

(***************************************************************************)
(* Text: a string is a sequence of one-character strings.                  *)
(***************************************************************************)
DigitChars == <<"0", "1", "2", "3", "4", "5", "6", "7", "8", "9">>

IsDigit(c) == \E i \in 1..10 : DigitChars[i] = c

DigitVal(c) == (CHOOSE i \in 1..10 : DigitChars[i] = c) - 1

\* str(n) for n >= 0
RECURSIVE Str(_)
Str(n) == IF n < 10 THEN <<DigitChars[n + 1]>>
          ELSE Str(n \div 10) \o <<DigitChars[(n % 10) + 1]>>

\* int(s): ValueError unless s is a run of digits
RECURSIVE DigitsValue(_, _)
DigitsValue(s, acc) ==
    IF s = <<>> THEN acc ELSE DigitsValue(Tail(s), acc * 10 + DigitVal(Head(s)))

ParseInt(s) ==
    IF s # <<>> /\ \A i \in 1..Len(s) : IsDigit(s[i])
    THEN Returned(DigitsValue(s, 0))
    ELSE Raised

\* s.split(sep)
RECURSIVE SplitFrom(_, _, _)
SplitFrom(s, sep, cur) ==
    IF s = <<>> THEN <<cur>>
    ELSE IF Head(s) = sep THEN <<cur>> \o SplitFrom(Tail(s), sep, <<>>)
    ELSE SplitFrom(Tail(s), sep, Append(cur, Head(s)))

Split(s, sep) == SplitFrom(s, sep, <<>>)

\* strftime('%H:%M')
TwoDigits(n) == IF n < 10 THEN <<"0">> \o Str(n) ELSE Str(n)

FormatHM(dt) == TwoDigits(dt.hour) \o <<":">> \o TwoDigits(dt.minute)

(***************************************************************************)
(* _get_free_slots, lines 119-134: the date resolver.                      *)
(***************************************************************************)
\* a resolver that takes the month's last day when the month is too short
ResolveDayOnly_Clamped(today, day) ==
    LET Last(y, m) == IF day > DaysInMonth(y, m) THEN DaysInMonth(y, m) ELSE day
        first == ReplaceDate(today, today.year, today.month,
                             Last(today.year, today.month))
    IN  IF ~first.ok THEN Raised
        ELSE IF DtLess(first.value, today)
        THEN LET rolled == ReplaceDate(first.value, first.value.year, today.month + 1,
                                       Last(first.value.year, today.month + 1))
             IN  IF ~rolled.ok THEN Raised
                 ELSE IF today.month = 12
                 THEN ReplaceDate(rolled.value, today.year + 1, 1, rolled.value.day)
                 ELSE rolled
        ELSE first

ResolveDayOnly(today, day) ==
    LET first == ReplaceDate(today, today.year, today.month, day)
    IN  IF ~first.ok THEN Raised
        ELSE IF DtLess(first.value, today)
        THEN LET rolled == ReplaceDate(first.value, first.value.year,
                                       today.month + 1, first.value.day)
             IN  IF ~rolled.ok THEN Raised
                 ELSE IF today.month = 12
                 THEN ReplaceDate(rolled.value, today.year + 1, 1, rolled.value.day)
                 ELSE rolled
        ELSE first

\* a resolver that keeps a day/month of the current year that has passed
ResolveDayMonth_NoYearRoll(today, day, month) ==
    ReplaceDate(today, today.year, month, day)

ResolveDayMonth(today, day, month) ==
    LET first == ReplaceDate(today, today.year, month, day)
    IN  IF ~first.ok THEN Raised
        ELSE IF DtLess(first.value, today)
        THEN ReplaceDate(first.value, today.year + 1, first.value.month, first.value.day)
        ELSE first

ResolveDate(today, date_str) ==
    LET input_parts == Split(date_str, "/")
        day == ParseInt(input_parts[1])
    IN  IF Len(input_parts) = 1
        THEN IF ~day.ok THEN Raised ELSE ResolveDayOnly(today, day.value)
        ELSE LET month == ParseInt(input_parts[2])
             IN  IF ~day.ok \/ ~month.ok THEN Raised
                 ELSE ResolveDayMonth(today, day.value, month.value)

(***************************************************************************)
(* ISO 8601 text of a datetime: <<year, month, day, hour, minute, aware,   *)
(* off>>; any other text is malformed.                                     *)
(***************************************************************************)
IsoFormat(dt) == <<dt.year, dt.month, dt.day, dt.hour, dt.minute, dt.aware, dt.off>>

FromIsoFormat(s) ==
    IF Len(s) = 7
    THEN Returned([year |-> s[1], month |-> s[2], day |-> s[3], hour |-> s[4],
                   minute |-> s[5], aware |-> s[6], off |-> s[7]])
    ELSE Raised

\* datetime.astimezone(): an aware value keeps its instant, a naive one is read
\* as local time; either way the result carries the system's offset
AsTimezone(dt, sysOff) ==
    IF dt.aware
    THEN [AddMinutes(dt, sysOff - dt.off) EXCEPT !.off = sysOff]
    ELSE [dt EXCEPT !.aware = TRUE, !.off = sysOff]

(***************************************************************************)
(* The calendar provider (Google Calendar API v3 events).                  *)
(* A booking is [id, hasSummary, summary, start, end]; start and end are   *)
(* the ISO texts events.list returns for timeZone=America/Sao_Paulo.       *)
(***************************************************************************)
MkBooking(id, hasSummary, summary, start, end) ==
    [id |-> id, hasSummary |-> hasSummary, summary |-> summary,
     start |-> start, end |-> end]

StartOf(b) == Instant(FromIsoFormat(b.start).value)
EndOf(b) == Instant(FromIsoFormat(b.end).value)

\* a dateTime sent with timeZone=America/Sao_Paulo, as the provider stores it
InSaoPaulo(iso) ==
    LET dt == FromIsoFormat(iso).value
    IN  IsoFormat(AsTimezone(dt, SaoPauloOffset))

RECURSIVE Perms(_)
Perms(S) ==
    IF S = {} THEN {<<>>}
    ELSE UNION {{<<x>> \o p : p \in Perms(S \ {x})} : x \in S}

IsSortedByStart(seq) ==
    \A i \in 1..(Len(seq) - 1) : StartOf(seq[i]) <= StartOf(seq[i + 1])

\* events.list(timeMin, timeMax, singleEvents=True[, orderBy='startTime']):
\* the events ending after timeMin and starting before timeMax; in start order
\* when orderBy is given, otherwise in an order the provider does not specify
ListEvents(cal, timeMin, timeMax, orderBy) ==
    LET lo == Instant(FromIsoFormat(timeMin).value)
        hi == Instant(FromIsoFormat(timeMax).value)
        hits == {b \in cal : EndOf(b) > lo /\ StartOf(b) < hi}
    IN  IF orderBy = "startTime"
        THEN {p \in Perms(hits) : IsSortedByStart(p)}
        ELSE Perms(hits)

ListCall(timeMin, timeMax, orderBy, ok) ==
    [api |-> "list", timeMin |-> timeMin, timeMax |-> timeMax,
     orderBy |-> orderBy, ok |-> ok]

(***************************************************************************)
(* _get_free_slots, lines 145-194: slot generator and conflict marker.     *)
(***************************************************************************)
MesesPtShort == <<"Jan", "Fev", "Mar", "Abr", "Mai", "Jun",
                  "Jul", "Ago", "Set", "Out", "Nov", "Dez">>

FormatDatePtShort(dt) == Str(dt.day) \o <<" de ", MesesPtShort[dt.month]>>

DateIso(dt) == <<dt.year, dt.month, dt.day>>

\* a generator whose loop runs while current_time <= end_time
RECURSIVE GenerateSlots_Inclusive(_, _)
GenerateSlots_Inclusive(current_time, end_time) ==
    IF ~DtLess(end_time, current_time)
    THEN <<[start |-> current_time,
            end |-> AddMinutes(current_time, 60 * SlotHours)]>>
         \o GenerateSlots_Inclusive(AddMinutes(current_time, 60 * SlotHours), end_time)
    ELSE <<>>

\* while current_time < end_time: append {start, end}; current_time += 1h
RECURSIVE GenerateSlots(_, _)
GenerateSlots(current_time, end_time) ==
    IF DtLess(current_time, end_time)
    THEN <<[start |-> current_time,
            end |-> AddMinutes(current_time, 60 * SlotHours)]>>
         \o GenerateSlots(AddMinutes(current_time, 60 * SlotHours), end_time)
    ELSE <<>>

\* an overlap test that counts touching intervals
Conflicts_Touching(event_start, event_end, slot) ==
    ~(Instant(event_end) < Instant(slot.start) \/ Instant(event_start) > Instant(slot.end))

\* if not (event_end <= slot['start'] or event_start >= slot['end'])
Conflicts(event_start, event_end, slot) ==
    ~(Instant(event_end) <= Instant(slot.start) \/ Instant(event_start) >= Instant(slot.end))

MarkEvent(slots, event) ==
    LET event_start == FromIsoFormat(event.start).value
        event_end == FromIsoFormat(event.end).value
    IN  [i \in 1..Len(slots) |->
            IF Conflicts(event_start, event_end, slots[i])
            THEN [start |-> slots[i].start, end |-> slots[i].end, busy |-> TRUE]
            ELSE slots[i]]

RECURSIVE MarkBusy(_, _)
MarkBusy(slots, events) ==
    IF events = <<>> THEN slots
    ELSE MarkBusy(MarkEvent(slots, Head(events)), Tail(events))

IsBusy(slot) == "busy" \in DOMAIN slot /\ slot.busy

RECURSIVE FormatFree(_)
FormatFree(slots) ==
    IF slots = <<>> THEN <<>>
    ELSE (IF IsBusy(Head(slots)) THEN <<>>
          ELSE <<[start |-> FormatHM(Head(slots).start),
                  end |-> FormatHM(Head(slots).end)]>>)
         \o FormatFree(Tail(slots))

FreeSlotsDict(target_date, free_slots, is_sunday) ==
    [date |-> FormatDatePtShort(target_date), free_slots |-> free_slots,
     is_sunday |-> is_sunday, target_date |-> DateIso(target_date)]

NoCall == [call |-> "none"]
NoOp == [name |-> "none"]
NoPrev == [created |-> FALSE]

Idle == pending = NoCall /\ op = NoOp

\* what one call of _get_free_slots(date_str) can do: the provider calls it
\* makes, what it returns or that it raises, and what it saw on the way. The
\* list call fails when listOk is FALSE, and otherwise answers with the
\* events of the window in start order
FreeSlotsRuns(today, cal, date_str) ==
    LET resolved == ResolveDate(today, date_str)
        target_date == resolved.value
        start_time == ReplaceTime(target_date, OpenHour, 0)
        end_time == ReplaceTime(target_date, CloseHour, 0)
        timeMin == IsoFormat(start_time)
        timeMax == IsoFormat(end_time)
        all_slots == GenerateSlots(start_time, end_time)
        seen == [name |-> "get_free_slots", date_str |-> date_str, today |-> today,
                 resolved |-> resolved, all_slots |-> <<>>, events |-> <<>>]
    IN  IF ~resolved.ok
        THEN {[calls |-> <<>>, result |-> Raised, seen |-> seen]}
        ELSE IF Weekday(target_date) = SundayWeekday
        THEN {[calls |-> <<>>, seen |-> seen,
               result |-> Returned(FreeSlotsDict(target_date, <<>>, TRUE))]}
        ELSE {[calls |-> <<ListCall(timeMin, timeMax, "startTime", FALSE)>>,
               result |-> Raised, seen |-> seen]}
             \cup
             {[calls |-> <<ListCall(timeMin, timeMax, "startTime", TRUE)>>,
               result |-> Returned(FreeSlotsDict(target_date,
                                                 FormatFree(MarkBusy(all_slots, events)),
                                                 FALSE)),
               seen |-> [seen EXCEPT !.all_slots = MarkBusy(all_slots, events),
                                     !.events = events]]
              : events \in ListEvents(cal, timeMin, timeMax, "startTime")}

GetFreeSlots ==
    /\ pending.call = "get_free_slots"
    /\ \E run \in FreeSlotsRuns(clock, calendar, pending.date_str) :
          /\ calls' = run.calls
          /\ result' = run.result
          /\ op' = run.seen
    /\ pending' = NoCall
    /\ UNCHANGED <<clock, calendar, nextId, prev>>

\* processar_mensagem, line 430: free_slots = calendar_tool._get_free_slots(date_str)
CallGetFreeSlots(date_str) ==
    /\ Idle
    /\ pending' = [call |-> "get_free_slots", date_str |-> date_str]
    /\ UNCHANGED <<clock, calendar, nextId, op, calls, result, prev>>

\* the call has returned to its caller, which is done with the result
Complete ==
    /\ pending = NoCall
    /\ op # NoOp
    /\ op' = NoOp
    /\ calls' = <<>>
    /\ result' = Raised
    /\ prev' = IF op.name = "run" /\ op.created THEN [created |-> TRUE, id |-> op.id,
                                                       time_iso |-> op.time_iso]
               ELSE NoPrev
    /\ UNCHANGED <<clock, calendar, nextId, pending>>

(***************************************************************************)
(* _encontrar_evento_por_hora, lines 274-309: the booking locator.         *)
(* A title is [given |-> FALSE] for None, else [given |-> TRUE, text].     *)
(***************************************************************************)
NoTitle == [given |-> FALSE]
Title(text) == [given |-> TRUE, text |-> text]

NotFound == [found |-> FALSE]
Found(id) == [found |-> TRUE, id |-> id]

\* str.lower(), on the letters the titles and messages of the model are written in
LowerChar(c) ==
    CASE c = "A" -> "a"
      [] c = "B" -> "b"
      [] c = "C" -> "c"
      [] c = "D" -> "d"
      [] c = "E" -> "e"
      [] c = "F" -> "f"
      [] c = "G" -> "g"
      [] c = "H" -> "h"
      [] c = "I" -> "i"
      [] c = "J" -> "j"
      [] c = "K" -> "k"
      [] c = "L" -> "l"
      [] c = "M" -> "m"
      [] c = "N" -> "n"
      [] c = "O" -> "o"
      [] c = "P" -> "p"
      [] c = "Q" -> "q"
      [] c = "R" -> "r"
      [] c = "S" -> "s"
      [] c = "T" -> "t"
      [] c = "U" -> "u"
      [] c = "V" -> "v"
      [] c = "W" -> "w"
      [] c = "X" -> "x"
      [] c = "Y" -> "y"
      [] c = "Z" -> "z"
      [] c = "Á" -> "á"
      [] c = "Â" -> "â"
      [] c = "Ã" -> "ã"
      [] c = "Ç" -> "ç"
      [] c = "É" -> "é"
      [] c = "Ê" -> "ê"
      [] c = "Í" -> "í"
      [] c = "Ó" -> "ó"
      [] c = "Ô" -> "ô"
      [] c = "Õ" -> "õ"
      [] c = "Ú" -> "ú"
      [] OTHER -> c

Lower(text) == [i \in 1..Len(text) |-> LowerChar(text[i])]

\* needle in hay
Contains(hay, needle) ==
    \E i \in 0..(Len(hay) - Len(needle)) : SubSeq(hay, i + 1, i + Len(needle)) = needle

\* event.get('summary', '')
SummaryOf(event) == IF event.hasSummary THEN event.summary ELSE <<>>

\* summary.lower() in event.get('summary', '').lower()
TitleMatches(summary, event) ==
    Contains(Lower(SummaryOf(event)), Lower(summary.text))

\* for event in events: if <title matches>: return event['id']
RECURSIVE FirstByTitle(_, _)
FirstByTitle(events, summary) ==
    IF events = <<>> THEN NotFound
    ELSE IF TitleMatches(summary, Head(events)) THEN Found(Head(events).id)
    ELSE FirstByTitle(Tail(events), summary)

\* a selection that gives up when a title is given and no event has it
SelectEvent_Strict(events, summary) ==
    IF events = <<>> THEN NotFound
    ELSE IF summary.given /\ summary.text # <<>>
    THEN FirstByTitle(events, summary)
    ELSE Found(events[1].id)

\* lines 291-306: the selection among the events the provider returned
SelectEvent(events, summary) ==
    IF events = <<>> THEN NotFound
    ELSE IF summary.given /\ summary.text # <<>>
              /\ FirstByTitle(events, summary).found
    THEN FirstByTitle(events, summary)
    ELSE Found(events[1].id)

\* a window that ends at the target time
LocatorWindow_EndsAtTarget(time_iso, sysOff) ==
    LET start_time == AsTimezone(FromIsoFormat(time_iso).value, sysOff)
    IN  [timeMin |-> IsoFormat(AddMinutes(start_time, -ToleranceMinutes)),
         timeMax |-> IsoFormat(start_time)]

\* the window of the locator's list call, lines 278-280
LocatorWindow(time_iso, sysOff) ==
    LET start_time == AsTimezone(FromIsoFormat(time_iso).value, sysOff)
    IN  [timeMin |-> IsoFormat(AddMinutes(start_time, -ToleranceMinutes)),
         timeMax |-> IsoFormat(AddMinutes(start_time, ToleranceMinutes))]

\* every way a call of the locator can go on calendar cal: the list call failing
\* (caught, None returned) or answering with the events of the window in one of
\* the orders the provider may give them in. A text that is no ISO date raises
\* before any call, which is caught as well.
LocatorRuns(cal, time_iso, summary, sysOff) ==
    IF ~FromIsoFormat(time_iso).ok
    THEN {[calls |-> <<>>, listed |-> FALSE, events |-> <<>>, found |-> NotFound]}
    ELSE LET w == LocatorWindow(time_iso, sysOff)
         IN  {[calls |-> <<ListCall(w.timeMin, w.timeMax, "", FALSE)>>,
               listed |-> FALSE, events |-> <<>>, found |-> NotFound]}
             \cup
             {[calls |-> <<ListCall(w.timeMin, w.timeMax, "", TRUE)>>,
               listed |-> TRUE, events |-> events,
               found |-> SelectEvent(events, summary)] :
                 events \in ListEvents(cal, w.timeMin, w.timeMax, "")}

\* _encontrar_evento_por_hora(time_iso, summary), called on its own
Locate ==
    /\ pending.call = "locate"
    /\ \E run \in LocatorRuns(calendar, pending.time_iso, pending.summary, clock.off) :
          /\ calls' = run.calls
          /\ result' = Returned(run.found)
          /\ op' = [name |-> "locate", time_iso |-> pending.time_iso,
                    summary |-> pending.summary, listed |-> run.listed,
                    events |-> run.events]
    /\ pending' = NoCall
    /\ UNCHANGED <<clock, calendar, nextId, prev>>

CallLocate(time_iso, summary) ==
    /\ Idle
    /\ pending' = [call |-> "locate", time_iso |-> time_iso, summary |-> summary]
    /\ UNCHANGED <<clock, calendar, nextId, op, calls, result, prev>>

(***************************************************************************)
(* _run, lines 200-272: create and cancel.                                 *)
(* event_details is a record with action and time_iso, and with summary    *)
(* and duration_hours when the caller put them in.                         *)
(***************************************************************************)
Get(dict, key, default) == IF key \in DOMAIN dict THEN dict[key] ELSE default

MesesPt == <<"Janeiro", "Fevereiro", "Março", "Abril", "Maio", "Junho", "Julho",
             "Agosto", "Setembro", "Outubro", "Novembro", "Dezembro">>

\* _format_date_pt, lines 88-101
FormatDatePt(time_iso) ==
    LET data_obj == FromIsoFormat(time_iso)
    IN  IF ~data_obj.ok THEN Raised
        ELSE Returned([dia |-> TwoDigits(data_obj.value.day),
                       mes |-> MesesPt[data_obj.value.month],
                       hora |-> FormatHM(data_obj.value)])

DefaultSummary == <<"R", "e", "u", "n", "i", "ã", "o", " ",
                    "A", "u", "t", "o", "m", "á", "t", "i", "c", "a">>

ShownSummary == <<"R", "e", "u", "n", "i", "ã", "o", " ", "c", "o", "m", " ",
                  "C", "l", "á", "u", "d", "i", "a">>

ErrorReply == [kind |-> "erro"]
NotFoundReply == [kind |-> "nao_encontrada"]
NoReply == [kind |-> "none"]

Confirmation(kind, event_details, when) ==
    [kind |-> kind, dia |-> when.dia, mes |-> when.mes, hora |-> when.hora,
     detalhes |-> Get(event_details, "summary", ShownSummary)]

DeleteCall(eventId, ok) == [api |-> "delete", eventId |-> eventId, ok |-> ok]
InsertCall(body, ok) == [api |-> "insert", body |-> body, ok |-> ok]

\* event_details.get('summary')
SummaryArg(event_details) ==
    IF "summary" \in DOMAIN event_details THEN Title(event_details.summary) ELSE NoTitle

RunOutcome(callsMade, reply, cal, located, ranLocator, created, id) ==
    [calls |-> callsMade, reply |-> reply, calendar |-> cal, located |-> located,
     ranLocator |-> ranLocator, created |-> created, id |-> id]

\* lines 218-233: the delete call for eventId answering or failing
DeleteOutcomes(cal, event_details, when, run, eventId) ==
    {RunOutcome(run.calls \o <<DeleteCall(eventId, TRUE)>>,
                Confirmation("cancelamento", event_details, when),
                {b \in cal : b.id # eventId}, run, TRUE, FALSE, 0),
     RunOutcome(run.calls \o <<DeleteCall(eventId, FALSE)>>,
                ErrorReply, cal, run, TRUE, FALSE, 0)}

\* a cancellation that deletes the first listed event, not the one located
CancelRuns_DeletesFirstListed(cal, event_details, when, sysOff) ==
    UNION {
        IF ~run.found.found
        THEN {RunOutcome(run.calls, NotFoundReply, cal, run, TRUE, FALSE, 0)}
        ELSE DeleteOutcomes(cal, event_details, when, run, run.events[1].id)
        : run \in LocatorRuns(cal, event_details.time_iso,
                              SummaryArg(event_details), sysOff)}

\* lines 206-233. Every way it can go: each run of the locator, then "not
\* found" or the delete call for the event located
CancelRuns(cal, event_details, when, sysOff) ==
    UNION {
        IF ~run.found.found
        THEN {RunOutcome(run.calls, NotFoundReply, cal, run, TRUE, FALSE, 0)}
        ELSE DeleteOutcomes(cal, event_details, when, run, run.found.id)
        : run \in LocatorRuns(cal, event_details.time_iso,
                              SummaryArg(event_details), sysOff)}

NoLocatorRun == [calls |-> <<>>, listed |-> FALSE, events |-> <<>>, found |-> NotFound]

\* lines 237-251: the event sent to the provider
EventBody(event_details) ==
    LET start_time == FromIsoFormat(event_details.time_iso).value
        duration == Get(event_details, "duration_hours", DefaultDurationHours)
        end_time == AddMinutes(start_time, 60 * duration)
    IN  [summary |-> Get(event_details, "summary", DefaultSummary),
         start |-> [dateTime |-> IsoFormat(start_time), timeZone |-> "America/Sao_Paulo"],
         end |-> [dateTime |-> IsoFormat(end_time), timeZone |-> "America/Sao_Paulo"]]

\* the booking the provider makes of an inserted event
Inserted(id, body) ==
    MkBooking(id, TRUE, body.summary, InSaoPaulo(body.start.dateTime),
              InSaoPaulo(body.end.dateTime))

\* lines 235-268: the insert call answering (while the provider has ids left to
\* give) or failing
CreateRuns(cal, id, event_details, when) ==
    LET body == EventBody(event_details)
    IN  {RunOutcome(<<InsertCall(body, FALSE)>>, ErrorReply, cal,
                    NoLocatorRun, FALSE, FALSE, 0)}
        \cup
        (IF id <= MaxIds
         THEN {RunOutcome(<<InsertCall(body, TRUE)>>,
                          Confirmation("agendamento", event_details, when),
                          cal \cup {Inserted(id, body)}, NoLocatorRun, FALSE, TRUE, id)}
         ELSE {})

\* _run with every action but 'cancelar' taken for a creation
RunOutcomes_CreatesUnlessCancel(cal, id, event_details, sysOff) ==
    LET action == Get(event_details, "action", "criar")
        when == FormatDatePt(event_details.time_iso)
    IN  IF ~when.ok
        THEN {RunOutcome(<<>>, ErrorReply, cal, NoLocatorRun, FALSE, FALSE, 0)}
        ELSE IF action = "cancelar"
        THEN CancelRuns(cal, event_details, when.value, sysOff)
        ELSE CreateRuns(cal, id, event_details, when.value)

\* _run(event_details): every way the call can go
RunOutcomes(cal, id, event_details, sysOff) ==
    LET action == Get(event_details, "action", "criar")
        when == FormatDatePt(event_details.time_iso)
    IN  IF ~when.ok
        THEN {RunOutcome(<<>>, ErrorReply, cal, NoLocatorRun, FALSE, FALSE, 0)}
        ELSE IF action = "cancelar"
        THEN CancelRuns(cal, event_details, when.value, sysOff)
        ELSE IF action = "criar"
        THEN CreateRuns(cal, id, event_details, when.value)
        ELSE {RunOutcome(<<>>, NoReply, cal, NoLocatorRun, FALSE, FALSE, 0)}

Run ==
    /\ pending.call = "run"
    /\ \E out \in RunOutcomes(calendar, nextId, pending.event_details, clock.off) :
          /\ calls' = out.calls
          /\ result' = Returned(out.reply)
          /\ calendar' = out.calendar
          /\ nextId' = IF out.created THEN nextId + 1 ELSE nextId
          /\ op' = [name |-> "run", event_details |-> pending.event_details,
                    time_iso |-> pending.event_details.time_iso,
                    ranLocator |-> out.ranLocator, located |-> out.located,
                    created |-> out.created, id |-> out.id]
    /\ pending' = NoCall
    /\ UNCHANGED <<clock, prev>>

\* processar_mensagem, line 544: calendar_tool.run(event_details)
CallRun(event_details) ==
    /\ Idle
    /\ pending' = [call |-> "run", event_details |-> event_details]
    /\ UNCHANGED <<clock, calendar, nextId, op, calls, result, prev>>

(***************************************************************************)
(* processar_mensagem, lines 373-553, and webhook, lines 565-586: what one *)
(* inbound message makes the program do. Texts are sequences of            *)
(* characters, as the titles are.                                          *)
(***************************************************************************)
\* lines 383-387
palavras_agendamento ==
    {<<"a", "g", "e", "n", "d", "a", "r">>, <<"m", "a", "r", "c", "a", "r">>,
     <<"h", "o", "r", "á", "r", "i", "o">>, <<"h", "o", "r", "a">>,
     <<"r", "e", "u", "n", "i", "ã", "o">>, <<"c", "o", "n", "s", "u", "l", "t", "a">>,
     <<"v", "i", "s", "i", "t", "a">>}

palavras_cancelamento ==
    {<<"c", "a", "n", "c", "e", "l", "a", "r">>,
     <<"d", "e", "s", "m", "a", "r", "c", "a", "r">>,
     <<"r", "e", "m", "o", "v", "e", "r">>, <<"e", "x", "c", "l", "u", "i", "r">>}

palavras_horarios ==
    {<<"h", "o", "r", "á", "r", "i", "o", "s">>,
     <<"h", "o", "r", "a", "r", "i", "o", "s">>,
     <<"d", "i", "s", "p", "o", "n", "í", "v", "e", "i", "s">>,
     <<"d", "i", "s", "p", "o", "n", "i", "v", "e", "i", "s">>,
     <<"v", "a", "g", "a", "s">>, <<"a", "b", "e", "r", "t", "o", "s">>}

palavras_precos ==
    {<<"p", "r", "e", "ç", "o", "s">>, <<"p", "r", "e", "c", "o", "s">>,
     <<"v", "a", "l", "o", "r", "e", "s">>, <<"t", "a", "b", "e", "l", "a">>,
     <<"s", "e", "r", "v", "i", "ç", "o", "s">>,
     <<"s", "e", "r", "v", "i", "c", "o", "s">>, <<"m", "e", "n", "u">>,
     <<"c", "a", "r", "d", "á", "p", "i", "o">>,
     <<"c", "a", "r", "d", "a", "p", "i", "o">>}

\* str.strip(): the text without its leading and trailing whitespace
IsSpace(ch) == ch \in {" ", "\t", "\n", "\r"}

Strip(s) ==
    LET kept == {i \in 1..Len(s) : ~IsSpace(s[i])}
    IN  IF kept = {} THEN <<>>
        ELSE SubSeq(s, CHOOSE i \in kept : \A j \in kept : i <= j,
                       CHOOSE i \in kept : \A j \in kept : j <= i)

\* str.lstrip('+')
LStripPlus(s) ==
    LET kept == {i \in 1..Len(s) : s[i] # "+"}
    IN  IF kept = {} THEN <<>>
        ELSE SubSeq(s, CHOOSE i \in kept : \A j \in kept : i <= j, Len(s))

\* the first position from j on that holds no whitespace, or Len(s) + 1
SkipSpaces(s, j) ==
    CHOOSE k \in j..(Len(s) + 1) :
        /\ k = Len(s) + 1 \/ ~IsSpace(s[k])
        /\ \A m \in j..(k - 1) : IsSpace(s[m])

\* the one or two digits that start at position i of s
DigitsAt(s, i) ==
    IF i + 1 <= Len(s) /\ IsDigit(s[i + 1]) THEN SubSeq(s, i, i + 1) ELSE SubSeq(s, i, i)

\* lines 423-427: re.search(r'(\d{1,2})(?:\s*\/\s*(\d{1,2}))?', mensagem), and
\* the date_str made of its groups: the first one or two digits of the
\* message are the day, and a "/" and digits that follow them the month
DateMatch(mensagem) ==
    LET starts == {i \in 1..Len(mensagem) : IsDigit(mensagem[i])}
        first == CHOOSE i \in starts : \A j \in starts : i <= j
        day == DigitsAt(mensagem, first)
        slash == SkipSpaces(mensagem, first + Len(day))
        second == SkipSpaces(mensagem, slash + 1)
        hasMonth == /\ slash <= Len(mensagem)
                    /\ mensagem[slash] = "/"
                    /\ second <= Len(mensagem)
                    /\ IsDigit(mensagem[second])
    IN  IF starts = {} THEN [found |-> FALSE]
        ELSE IF hasMonth
        THEN [found |-> TRUE, date_str |-> day \o <<"/">> \o DigitsAt(mensagem, second)]
        ELSE [found |-> TRUE, date_str |-> day]

\* line 472: the number unmatched messages are forwarded to
ForwardNumber ==
    <<"+", "5", "5", "1", "1", "9", "8", "1", "5", "8", "3", "4", "5", "3">>


\* to=f"whatsapp:{numero.lstrip('+')}"
Recipient(numero) ==
    <<"w", "h", "a", "t", "s", "a", "p", "p", ":">> \o LStripPlus(numero)

\* one client.messages.create of the delivery gateway: the arguments it was
\* given, and whether the gateway took the message
GatewayCall(body, numero, media, ok) ==
    [to |-> Recipient(numero), body |-> body, media |-> media, ok |-> ok]

\* the texts the program sends
Saudacao == [kind |-> "saudacao"]
ListaPrecos == [kind |-> "lista_precos"]
ErroPdf == [kind |-> "erro_pdf"]
ErroHorarios == [kind |-> "erro_horarios"]
ErroExtracao == [kind |-> "erro"]
ErroGeral == [kind |-> "erro_geral"]
MensagemEncaminhadaAck == [kind |-> "resposta_cliente"]

\* lines 466-471: the forwarded text carries the message, the sender's number
\* and datetime.now() as %d/%m/%Y %H:%M
MensagemEncaminhada(mensagem, numero, now) ==
    [kind |-> "mensagem_encaminhada", mensagem |-> mensagem, numero |-> numero,
     data |-> <<TwoDigits(now.day), TwoDigits(now.month), Str(now.year)>>,
     hora |-> FormatHM(now)]

\* lines 432-454: the reply to a free-slots request
RespostaHorarios(free_slots) ==
    IF free_slots.is_sunday
    THEN [kind |-> "domingo", date |-> free_slots.date]
    ELSE IF free_slots.free_slots = <<>>
    THEN [kind |-> "sem_horarios", date |-> free_slots.date]
    ELSE [kind |-> "horarios", date |-> free_slots.date, slots |-> free_slots.free_slots]

\* what a stretch of the handler did: the gateway calls in order, the number
\* of crew.kickoff() calls, the provider calls in order, the calendar it
\* leaves, the booking it created, and whether it ended in an exception
Trace(sent, kickoffs, log, cal, created, id, raised) ==
    [sent |-> sent, kickoffs |-> kickoffs, calls |-> log, calendar |-> cal,
     created |-> created, id |-> id, raised |-> raised, path |-> "none"]

\* enviar_mensagem_whatsapp, lines 332-345, letting a gateway failure out
EnviarMensagemWhatsapp_Uncaught(cal, mensagem, numero) ==
    {Trace(<<GatewayCall(mensagem, numero, FALSE, TRUE)>>, 0, <<>>, cal, FALSE, 0, FALSE),
     Trace(<<GatewayCall(mensagem, numero, FALSE, FALSE)>>, 0, <<>>, cal, FALSE, 0, TRUE)}

\* enviar_mensagem_whatsapp, lines 332-345: the gateway takes the message or
\* fails, and the failure is logged and goes no further
EnviarMensagemWhatsapp(cal, mensagem, numero) ==
    {Trace(<<GatewayCall(mensagem, numero, FALSE, ok)>>, 0, <<>>, cal, FALSE, 0, FALSE)
     : ok \in BOOLEAN}

\* lines 396-413: the price list goes straight to the gateway, with the PDF,
\* and a failure of that call is an exception
EnviarListaPrecos(cal, numero) ==
    {Trace(<<GatewayCall(ListaPrecos, numero, TRUE, TRUE)>>, 0, <<>>, cal, FALSE, 0, FALSE),
     Trace(<<GatewayCall(ListaPrecos, numero, TRUE, FALSE)>>, 0, <<>>, cal, FALSE, 0, TRUE)}

\* b right after a
Join(a, b) ==
    [sent |-> a.sent \o b.sent, kickoffs |-> a.kickoffs + b.kickoffs,
     calls |-> a.calls \o b.calls, calendar |-> b.calendar,
     created |-> a.created \/ b.created, id |-> IF b.created THEN b.id ELSE a.id,
     raised |-> b.raised, path |-> a.path]

\* statements in sequence: the second runs unless the first raised; B is what
\* the second can do on the calendar the first leaves
AndThen(A, B) == UNION {IF a.raised THEN {a} ELSE {Join(a, b) : b \in B} : a \in A}

\* try: A except Exception: H
TryExcept(A, H) ==
    UNION {IF a.raised THEN {Join([a EXCEPT !.raised = FALSE], h) : h \in H} ELSE {a}
           : a \in A}

\* the message goes out after each of the ways A can end without raising
ThenSend(A, mensagem, numero) ==
    UNION {AndThen({a}, EnviarMensagemWhatsapp(a.calendar, mensagem, numero)) : a \in A}

\* the message goes out from the handler of each exception of A
ExceptSend(A, mensagem, numero) ==
    UNION {TryExcept({a}, EnviarMensagemWhatsapp(a.calendar, mensagem, numero)) : a \in A}

(***************************************************************************)
(* The extractor is the environment: crew.kickoff() raises, or returns a   *)
(* text that json.loads rejects, or one it reads as event_data. In         *)
(* event_data, summary is a title: NoTitle where the text says null.       *)
(***************************************************************************)
KickoffRaises == [kind |-> "raises"]
NotJson == [kind |-> "text"]
Json(event_data) == [kind |-> "json", event_data |-> event_data]

\* lines 520-525: event_data of the crew's result
ParseResultado(resultado) ==
    IF resultado.kind = "json" THEN Returned(resultado.event_data) ELSE Raised

\* lines 527-541: event_details of event_data, or ValueError
EventDetailsOf(event_data) ==
    LET hasSummary == "summary" \in DOMAIN event_data /\ event_data.summary.given
        creates == event_data.action = "criar"
        duration_hours == Get(event_data, "duration_hours", DefaultDurationHours)
    IN  IF ~({"action", "time_iso"} \subseteq DOMAIN event_data) THEN Raised
        ELSE IF hasSummary /\ creates
        THEN Returned([action |-> event_data.action, time_iso |-> event_data.time_iso,
                       summary |-> event_data.summary.text,
                       duration_hours |-> duration_hours])
        ELSE IF hasSummary
        THEN Returned([action |-> event_data.action, time_iso |-> event_data.time_iso,
                       summary |-> event_data.summary.text])
        ELSE IF creates
        THEN Returned([action |-> event_data.action, time_iso |-> event_data.time_iso,
                       duration_hours |-> duration_hours])
        ELSE Returned([action |-> event_data.action, time_iso |-> event_data.time_iso])

\* lines 519-549: the inner try of the booking path on the crew's result;
\* line 544 is calendar_tool.run(event_details), and line 545 sends its reply
HandleResultado(cal, id, resultado, numero, sysOff) ==
    LET event_data == ParseResultado(resultado)
        event_details == IF event_data.ok THEN EventDetailsOf(event_data.value) ELSE Raised
        ran == UNION {ThenSend({Trace(<<>>, 0, out.calls, out.calendar, out.created,
                                      out.id, FALSE)},
                               out.reply, numero)
                      : out \in RunOutcomes(cal, id, event_details.value, sysOff)}
    IN  ExceptSend(IF event_details.ok THEN ran
                   ELSE {Trace(<<>>, 0, <<>>, cal, FALSE, 0, TRUE)},
                   ErroExtracao, numero)

\* lines 482-549: crew.kickoff() and what follows it
Agendamento(cal, id, resultado, numero, sysOff) ==
    IF resultado.kind = "raises"
    THEN {Trace(<<>>, 1, <<>>, cal, FALSE, 0, TRUE)}
    ELSE AndThen({Trace(<<>>, 1, <<>>, cal, FALSE, 0, FALSE)},
                 HandleResultado(cal, id, resultado, numero, sysOff))

\* lines 396-418: the price list, or the apology when the gateway fails
Precos(cal, numero) ==
    TryExcept(EnviarListaPrecos(cal, numero), EnviarMensagemWhatsapp(cal, ErroPdf, numero))

\* lines 429-462: the free slots of date_str, or the apology when
\* _get_free_slots raises
Horarios(today, cal, date_str, numero) ==
    ExceptSend(UNION {IF run.result.ok
                      THEN ThenSend({Trace(<<>>, 0, run.calls, cal, FALSE, 0, FALSE)},
                                    RespostaHorarios(run.result.value), numero)
                      ELSE {Trace(<<>>, 0, run.calls, cal, FALSE, 0, TRUE)}
                      : run \in FreeSlotsRuns(today, cal, date_str)},
               ErroHorarios, numero)

\* lines 464-480: the message goes to ForwardNumber, and the sender is told
Encaminhar(today, cal, mensagem, numero) ==
    AndThen(EnviarMensagemWhatsapp(cal, MensagemEncaminhada(mensagem, numero, today),
                                   ForwardNumber),
            EnviarMensagemWhatsapp(cal, MensagemEncaminhadaAck, numero))

\* lines 389-393, 396, 421-424 and 464: the branch of processar_mensagem a
\* message is handled by
Path(mensagem) ==
    LET mensagem_lower == Lower(mensagem)
        eh_agendamento == \E palavra \in palavras_agendamento : Contains(mensagem_lower, palavra)
        eh_cancelamento == \E palavra \in palavras_cancelamento : Contains(mensagem_lower, palavra)
        eh_horarios == \E palavra \in palavras_horarios : Contains(mensagem_lower, palavra)
        eh_precos == \E palavra \in palavras_precos : Contains(mensagem_lower, palavra)
    IN  IF eh_precos THEN "precos"
        ELSE IF eh_horarios /\ DateMatch(mensagem).found THEN "horarios"
        ELSE IF ~(eh_agendamento \/ eh_cancelamento \/ eh_horarios \/ eh_precos)
        THEN "encaminhar"
        ELSE "agendamento"

\* processar_mensagem(mensagem, numero, primeira_vez): every way the call
\* can go when the extractor, if asked, answers resultado
ProcessarMensagem(today, cal, id, mensagem, numero, primeira_vez, resultado) ==
    LET path == Path(mensagem)
        \* lines 376-378: the greeting
        saudacao == IF primeira_vez THEN EnviarMensagemWhatsapp(cal, Saudacao, numero)
                    ELSE {Trace(<<>>, 0, <<>>, cal, FALSE, 0, FALSE)}
        branch == IF path = "precos" THEN Precos(cal, numero)
                  ELSE IF path = "horarios"
                  THEN Horarios(today, cal, DateMatch(mensagem).date_str, numero)
                  ELSE IF path = "encaminhar"
                  THEN Encaminhar(today, cal, mensagem, numero)
                  ELSE Agendamento(cal, id, resultado, numero, today.off)
    IN  ExceptSend(AndThen(saudacao, branch), ErroGeral, numero)

\* request.values.get(key, '').strip()
Field(values, key) == Strip(Get(values, key, <<>>))

NoResultado == [kind |-> "none"]

\* webhook(), lines 565-586: the post is refused, or processed and answered
Webhook ==
    /\ pending.call = "webhook"
    /\ LET incoming_msg == Field(pending.values, "Body")
           sender == Field(pending.values, "From")
           seen == [name |-> "webhook", values |-> pending.values,
                    incoming_msg |-> incoming_msg, sender |-> sender,
                    processed |-> FALSE, path |-> "none", resultado |-> NoResultado,
                    sent |-> <<>>, kickoffs |-> 0, created |-> FALSE, id |-> 0,
                    before |-> calendar]
       IN  IF incoming_msg = <<>> \/ sender = <<>>
           THEN /\ result' = Returned(400)
                /\ op' = seen
                /\ UNCHANGED <<calendar, nextId, calls>>
           ELSE \E t \in ProcessarMensagem(clock, calendar, nextId, incoming_msg, sender,
                                           TRUE, pending.resultado) :
                   /\ result' = Returned(IF t.raised THEN 500 ELSE 200)
                   /\ calls' = t.calls
                   /\ calendar' = t.calendar
                   /\ nextId' = IF t.created THEN nextId + 1 ELSE nextId
                   /\ op' = [seen EXCEPT !.processed = TRUE,
                                         !.path = Path(incoming_msg),
                                         !.resultado = IF t.kickoffs > 0
                                                       THEN pending.resultado
                                                       ELSE NoResultado,
                                         !.sent = t.sent, !.kickoffs = t.kickoffs,
                                         !.created = t.created, !.id = t.id]
    /\ pending' = NoCall
    /\ UNCHANGED <<clock, prev>>

\* Twilio posts values to /webhook; resultado is what the extractor will
\* answer if this message gets to it
Post(values, resultado) ==
    /\ Idle
    /\ pending' = [call |-> "webhook", values |-> values, resultado |-> resultado]
    /\ UNCHANGED <<clock, calendar, nextId, op, calls, result, prev>>

(***************************************************************************)
(* Inputs and initial states.                                              *)
(***************************************************************************)
Years == FirstYear..(FirstYear + NumYears - 1)

ClockDays == {1, 20, 28, 29, 30, 31}

MkDateTime(y, m, d, h, mi, off) ==
    [year |-> y, month |-> m, day |-> d, hour |-> h, minute |-> mi,
     aware |-> TRUE, off |-> off]

\* the clocks of the date resolver's specification: every month of every year,
\* its first day, a middle day and each possible last day
ResolveClocks ==
    {dt \in {MkDateTime(y, m, d, 10, 30, SaoPauloOffset) :
                y \in Years, m \in 1..12, d \in ClockDays} :
        ValidDate(dt.year, dt.month, dt.day)}

\* what the regular expression of processar_mensagem hands over: one or two
\* digits for the day, optionally "/" and one or two digits for the month
DayStrs == {Str(n) : n \in 0..MaxDayInput} \cup {<<"0", "5">>}

MonthStrs == {Str(n) : n \in 0..MaxMonthInput} \cup {<<"0", "2">>}

DateStrs == DayStrs \cup {d \o <<"/">> \o m : d \in DayStrs, m \in MonthStrs}

InitCommon ==
    /\ nextId = 1
    /\ pending = NoCall
    /\ op = NoOp
    /\ calls = <<>>
    /\ result = Raised
    /\ prev = NoPrev

InitResolve ==
    /\ clock \in ResolveClocks
    /\ calendar = {}
    /\ InitCommon

NextResolve ==
    \/ \E date_str \in DateStrs : CallGetFreeSlots(date_str)
    \/ GetFreeSlots
    \/ Complete

SpecResolve == InitResolve /\ [][NextResolve]_vars

(***************************************************************************)
(* The free-slot specification: one clock, a week of requested days, and   *)
(* every calendar of up to MaxEvents bookings on the second of those days. *)
(***************************************************************************)
SlotsYear == FirstYear + 1
SlotsMonth == 3
SlotsToday == 13
SlotsBusyDay == 14

SlotsClocks ==
    {MkDateTime(SlotsYear, SlotsMonth, SlotsToday, 10, 30, off) : off \in {SaoPauloOffset, 0}}

SlotsDateStrs ==
    {Str(d) : d \in (SlotsToday - 1)..(SlotsToday + 6)}
    \cup {Str(SlotsBusyDay) \o <<"/">> \o Str(SlotsMonth)}

\* minutes of the day of the booking times
SlotsTimes == {420, 480, 510, 540, 600, 1140}

SlotsKinds == {k \in SlotsTimes \X SlotsTimes : k[1] <= k[2]}

BusyDayIso(minutes) ==
    <<SlotsYear, SlotsMonth, SlotsBusyDay, minutes \div 60, minutes % 60, TRUE, SaoPauloOffset>>

AnaTitle == <<"A", "n", "a">>

KindKey(k) == k[1] * 10000 + k[2]

\* the calendars of n bookings, each booking given the id of its rank
SlotsCalendars(n) ==
    {{MkBooking(i, TRUE, AnaTitle, BusyDayIso(ks[i][1]), BusyDayIso(ks[i][2])) : i \in 1..n} :
        ks \in {f \in [1..n -> SlotsKinds] :
                    \A i \in 1..(n - 1) : KindKey(f[i]) <= KindKey(f[i + 1])}}

InitSlots ==
    /\ clock \in SlotsClocks
    /\ calendar \in UNION {SlotsCalendars(n) : n \in 0..MaxEvents}
    /\ InitCommon

NextSlots ==
    \/ \E date_str \in SlotsDateStrs : CallGetFreeSlots(date_str)
    \/ GetFreeSlots
    \/ Complete

SpecSlots == InitSlots /\ [][NextSlots]_vars

(***************************************************************************)
(* The locator specification: every calendar of up to MaxBookings bookings *)
(* around 9:15 of one day, with and without a title, and the locator       *)
(* called on it.                                                           *)
(***************************************************************************)
BookClocks == SlotsClocks

\* minutes of the day the bookings of these calendars start at
BookStarts == {540, 555, 585}

BookKinds == BookStarts \X {FALSE, TRUE}

BookKindKey(k) == k[1] * 2 + (IF k[2] THEN 1 ELSE 0)

KindBooking(id, k) ==
    MkBooking(id, k[2], IF k[2] THEN AnaTitle ELSE <<>>,
              BusyDayIso(k[1]), BusyDayIso(k[1] + 60 * DefaultDurationHours))

LocateCalendars(n) ==
    {{KindBooking(i, ks[i]) : i \in 1..n} :
        ks \in {f \in [1..n -> BookKinds] :
                    \A i \in 1..(n - 1) : BookKindKey(f[i]) <= BookKindKey(f[i + 1])}}

NaiveIso(iso) == <<iso[1], iso[2], iso[3], iso[4], iso[5], FALSE, 0>>

Malformed == <<>>

LocateTimes == {BusyDayIso(555), BusyDayIso(560), NaiveIso(BusyDayIso(555)), Malformed}

LocateTitles == {NoTitle, Title(<<>>), Title(<<"a", "N">>), Title(<<"z">>)}

InitLocate ==
    /\ clock \in BookClocks
    /\ calendar \in UNION {LocateCalendars(n) : n \in 0..MaxBookings}
    /\ InitCommon

NextLocate ==
    \/ \E time_iso \in LocateTimes, summary \in LocateTitles : CallLocate(time_iso, summary)
    \/ Locate
    \/ Complete

SpecLocate == InitLocate /\ [][NextLocate]_vars

(***************************************************************************)
(* The booking specification: a calendar with at most one booking made     *)
(* elsewhere, near 9:15 of one day, and calls of _run and of the locator   *)
(* about that time, one after the other.                                   *)
(***************************************************************************)
ExistingKinds == {540, 585} \X {FALSE, TRUE}

ExistingCalendars == {{}} \cup {{KindBooking(0, k)} : k \in ExistingKinds}

BookTimes == {BusyDayIso(555), NaiveIso(BusyDayIso(555)), Malformed}

FragmentAn == <<"a", "N">>

CreateRequests ==
    UNION {{[action |-> "criar", time_iso |-> t],
            [action |-> "criar", time_iso |-> t, summary |-> FragmentAn,
             duration_hours |-> 1],
            [action |-> "criar", time_iso |-> t, duration_hours |-> 2]} : t \in BookTimes}
    \cup {[time_iso |-> BusyDayIso(555)]}

CancelRequests ==
    UNION {{[action |-> "cancelar", time_iso |-> t],
            [action |-> "cancelar", time_iso |-> t, summary |-> FragmentAn]} : t \in BookTimes}

OtherRequests == {[action |-> "remarcar", time_iso |-> BusyDayIso(555)]}

RunRequests == CreateRequests \cup CancelRequests \cup OtherRequests

InitBook ==
    /\ clock \in BookClocks
    /\ calendar \in ExistingCalendars
    /\ InitCommon

NextBook ==
    \/ \E event_details \in RunRequests : CallRun(event_details)
    \/ Run
    \/ \E time_iso \in BookTimes, summary \in {NoTitle, Title(<<"z">>)} :
          CallLocate(time_iso, summary)
    \/ Locate
    \/ Complete

SpecBook == InitBook /\ [][NextBook]_vars

(***************************************************************************)
(* The message specification: posts to /webhook, one after the other, on   *)
(* the calendars of the booking specification, with every answer of the    *)
(* extractor to the messages that reach it.                                *)
(***************************************************************************)
EventDatas ==
    LET time_iso == BusyDayIso(555)
    IN  {[action |-> "criar", time_iso |-> time_iso],
         [action |-> "criar", time_iso |-> time_iso, summary |-> Title(FragmentAn),
          duration_hours |-> 2],
         [action |-> "criar", time_iso |-> time_iso, summary |-> NoTitle],
         [action |-> "criar", time_iso |-> Malformed],
         [action |-> "cancelar", time_iso |-> time_iso],
         [action |-> "cancelar", time_iso |-> time_iso, summary |-> Title(FragmentAn)],
         [action |-> "remarcar", time_iso |-> time_iso],
         [time_iso |-> time_iso]}

SenderOther ==
    <<"w", "h", "a", "t", "s", "a", "p", "p", ":", "+", "5", "5", "1", "1", "9", "7", "7">>

\* the message texts of the model: "Oi", " Bom dia\n", "PREÇOS",
\* "tabela vagas 14", "Vagas 14", "vagas 14 / 3", "horarios 17", "vagas 30/2",
\* "vagas", "Marcar 14", "cancelar", with the busy day and the month of the
\* free-slot specification for 14 and 3
Bodies ==
    {<<"O", "i">>,
     <<" ", "B", "o", "m", " ", "d", "i", "a">> \o <<"\n">>,
     <<"P", "R", "E", "Ç", "O", "S">>,
     <<"t", "a", "b", "e", "l", "a", " ", "v", "a", "g", "a", "s", " ">> \o Str(SlotsBusyDay),
     <<"V", "a", "g", "a", "s", " ">> \o Str(SlotsBusyDay),
     <<"v", "a", "g", "a", "s", " ">> \o Str(SlotsBusyDay) \o <<" ", "/", " ">> \o Str(SlotsMonth),
     <<"h", "o", "r", "a", "r", "i", "o", "s", " ">> \o Str(SlotsBusyDay + 3),
     <<"v", "a", "g", "a", "s", " ", "3", "0", "/", "2">>,
     <<"v", "a", "g", "a", "s">>,
     <<"M", "a", "r", "c", "a", "r", " ">> \o Str(SlotsBusyDay),
     <<"c", "a", "n", "c", "e", "l", "a", "r">>}

\* posts with both fields, and posts with a field missing, empty or blank
Posts ==
    {[Body |-> body, From |-> SenderOther] : body \in Bodies}
    \cup {[Body |-> body, From |-> ForwardNumber] : body \in {<<"O", "i">>, <<"o", "i", " ", "9">>}}
    \cup {[From |-> SenderOther], [Body |-> <<"O", "i">>],
          [Body |-> <<>>, From |-> SenderOther],
          [Body |-> <<" ", "\n">>, From |-> SenderOther],
          [Body |-> <<"O", "i">>, From |-> <<" ">>]}

\* the extractor answers the messages that get to it
ResultadosFor(values) ==
    IF Path(Field(values, "Body")) = "agendamento" /\ Field(values, "From") # <<>>
    THEN {KickoffRaises, NotJson} \cup {Json(event_data) : event_data \in EventDatas}
    ELSE {NoResultado}

InitWeb ==
    /\ clock = MkDateTime(SlotsYear, SlotsMonth, SlotsToday, 10, 30, SaoPauloOffset)
    /\ calendar \in ExistingCalendars
    /\ InitCommon

NextWeb ==
    \/ \E values \in Posts : \E resultado \in ResultadosFor(values) : Post(values, resultado)
    \/ Webhook
    \/ Complete

SpecWeb == InitWeb /\ [][NextWeb]_vars

(***************************************************************************)
(* Properties of the date resolver (checked under SpecResolve).            *)
(***************************************************************************)
Resolving == op.name = "get_free_slots"

AskedParts == Split(op.date_str, "/")
AskedDay == ParseInt(AskedParts[1]).value
AskedMonth == ParseInt(AskedParts[2]).value
DayOnly == Len(AskedParts) = 1

\* the month and year a day-only request is about: this month, or the next
\* one when the day has passed
DayOnlyPassed == AskedDay < op.today.day
DayOnlyYear == IF DayOnlyPassed /\ op.today.month = 12 THEN op.today.year + 1
               ELSE op.today.year
DayOnlyMonth == IF ~DayOnlyPassed THEN op.today.month
                ELSE IF op.today.month = 12 THEN 1 ELSE op.today.month + 1

\* the year a day/month request is about: this year, or the next one when the
\* day/month has passed
DayMonthPassed ==
    \/ AskedMonth < op.today.month
    \/ AskedMonth = op.today.month /\ AskedDay < op.today.day
DayMonthYear == IF DayMonthPassed THEN op.today.year + 1 ELSE op.today.year

\* C1: a day-only request for a day of the current month that has passed, and
\* that the next month has, resolves to that day of the next month, December
\* rolling into January of the next year.
C1_DayOnlyRollsToNextMonth ==
    (/\ Resolving
     /\ DayOnly
     /\ AskedDay >= 1
     /\ DayOnlyPassed
     /\ ValidDate(DayOnlyYear, DayOnlyMonth, AskedDay))
    => /\ op.resolved.ok
       /\ op.resolved.value.year = DayOnlyYear
       /\ op.resolved.value.month = DayOnlyMonth
       /\ op.resolved.value.day = AskedDay

\* C2: a date the resolver returns is never an instant before "now".
C2_ResolvedNotBeforeNow ==
    (Resolving /\ op.resolved.ok) => Instant(op.resolved.value) >= Instant(op.today)

C2_Witness_RolledToNextYear ==
    /\ Resolving
    /\ ~DayOnly
    /\ op.resolved.ok
    /\ op.resolved.value.year = op.today.year + 1

\* C10: a day/month that does not exist in the month and year the request is
\* about makes the call raise, with no list call made and nothing reported; and a
\* date that is returned is the day (and month) asked for, never another one.
C10_InvalidDateRaises ==
    Resolving =>
        /\ (DayOnly /\ ~ValidDate(DayOnlyYear, DayOnlyMonth, AskedDay))
              => (~op.resolved.ok /\ ~result.ok /\ calls = <<>>)
        /\ (~DayOnly /\ ~ValidDate(DayMonthYear, AskedMonth, AskedDay))
              => (~op.resolved.ok /\ ~result.ok /\ calls = <<>>)
        /\ op.resolved.ok
              => /\ op.resolved.value.day = AskedDay
                 /\ ~DayOnly => op.resolved.value.month = AskedMonth
                 /\ ValidDate(op.resolved.value.year, op.resolved.value.month,
                              op.resolved.value.day)

\* day 30 asked on 31 January: rolled into February, which has no day 30
C10_Witness_RolledIntoShortMonth ==
    /\ Resolving
    /\ DayOnly
    /\ DayOnlyPassed
    /\ op.today.month # 12
    /\ ~ValidDate(DayOnlyYear, DayOnlyMonth, AskedDay)
    /\ ~result.ok
    /\ calls = <<>>

(***************************************************************************)
(* Properties of the slot generator and the conflict marker (checked under *)
(* SpecSlots).                                                             *)
(***************************************************************************)
Listed == Resolving /\ result.ok /\ ~result.value.is_sunday

\* C3: when slots are generated (a date that is no Sunday, the list call
\* answered), they are 11 slots of one hour, in ascending order, each ending
\* where the next starts, from 8:00 to 19:00 of the resolved date, whatever
\* the bookings.
C3_ElevenContiguousSlots ==
    Listed =>
        LET slots == op.all_slots
            day == op.resolved.value
        IN  /\ Len(slots) = 11
            /\ \A i \in 1..Len(slots) :
                  /\ DateIso(slots[i].start) = DateIso(day)
                  /\ slots[i].start.hour = 8 + (i - 1)
                  /\ slots[i].start.minute = 0
                  /\ Instant(slots[i].end) - Instant(slots[i].start) = 60
            /\ \A i \in 1..(Len(slots) - 1) :
                  /\ slots[i].end = slots[i + 1].start
                  /\ Instant(slots[i].start) < Instant(slots[i + 1].start)
            /\ slots[Len(slots)].end.hour = 19
            /\ slots[Len(slots)].end.minute = 0
            /\ DateIso(slots[Len(slots)].end) = DateIso(day)

C3_Witness_SlotsWithBookings ==
    /\ Listed
    /\ Len(op.events) = 2
    /\ Len(op.all_slots) = 11

ReportedFree(slot) ==
    \E j \in 1..Len(result.value.free_slots) :
        result.value.free_slots[j] = [start |-> FormatHM(slot.start),
                                      end |-> FormatHM(slot.end)]

Overlapping(b, slot) ==
    StartOf(b) < Instant(slot.end) /\ EndOf(b) > Instant(slot.start)

\* C4: a generated slot is reported free exactly when no booking of the
\* calendar overlaps it, a booking that only touches the slot's start or end
\* not overlapping it; the free slots are reported in slot order.
C4_FreeIffNoOverlap ==
    Listed =>
        /\ \A i \in 1..Len(op.all_slots) :
              ReportedFree(op.all_slots[i])
                  <=> ~(\E b \in calendar : Overlapping(b, op.all_slots[i]))
        /\ Len(result.value.free_slots)
              = Cardinality({i \in 1..Len(op.all_slots) :
                                ~(\E b \in calendar : Overlapping(b, op.all_slots[i]))})

\* a booking that ends exactly where a slot starts: the slot before it is
\* occupied and that slot is free
C4_Witness_TouchingIsFree ==
    /\ Listed
    /\ \E b \in calendar : \E i \in 2..Len(op.all_slots) :
          /\ EndOf(b) = Instant(op.all_slots[i].start)
          /\ StartOf(b) < EndOf(b)
          /\ ~ReportedFree(op.all_slots[i - 1])
          /\ ReportedFree(op.all_slots[i])

(***************************************************************************)
(* Properties of the booking locator (checked under SpecLocate).           *)
(***************************************************************************)
Locating == op.name = "locate"

WithTitle == op.summary.given /\ op.summary.text # <<>>

\* positions, in the order the provider returned the events, of those whose
\* title contains the fragment whatever the case of the letters
Matching ==
    {i \in 1..Len(op.events) :
        Contains(Lower(SummaryOf(op.events[i])), Lower(op.summary.text))}

\* the instant the locator is asked about: the text's own offset, or the
\* system's when it has none
TargetInstant ==
    LET dt == FromIsoFormat(op.time_iso).value
    IN  IF dt.aware THEN Instant(dt) ELSE WallKey(dt) - clock.off

InWindow(b) == EndOf(b) > TargetInstant - 30 /\ StartOf(b) < TargetInstant + 30

\* C5: the locator reports NotFound exactly when the provider returned no
\* booking of the +/-30 minute window; with a title fragment that some title
\* contains (case-insensitively) it returns the first such booking in the
\* provider's order; with no fragment, or none matching, it returns the first
\* booking in the provider's order.
C5_SelectionPolicy ==
    Locating =>
        /\ ~result.value.found <=> op.events = <<>>
        /\ op.listed =>
              /\ {op.events[i] : i \in 1..Len(op.events)} = {b \in calendar : InWindow(b)}
              /\ Len(op.events) = Cardinality({b \in calendar : InWindow(b)})
        /\ (WithTitle /\ Matching # {}) =>
              /\ result.value.found
              /\ \E i \in Matching :
                    /\ \A j \in Matching : i <= j
                    /\ result.value.id = op.events[i].id
        /\ (op.events # <<>> /\ (~WithTitle \/ Matching = {})) =>
              /\ result.value.found
              /\ result.value.id = op.events[1].id

\* a fragment that no title contains: the first booking is returned all the same
C5_Witness_FallbackToFirst ==
    /\ Locating
    /\ WithTitle
    /\ Len(op.events) >= 2
    /\ Matching = {}
    /\ result.value = Found(op.events[1].id)

\* C6: with no title fragment (or none matching) the booking returned is the
\* one that starts earliest among the bookings of the window, whatever the
\* order the provider returned them in.
C6_ReturnsEarliestStart ==
    (Locating /\ op.events # <<>> /\ (~WithTitle \/ Matching = {})) =>
        /\ result.value.found
        /\ \E b \in calendar :
              /\ b.id = result.value.id
              /\ \A other \in {c \in calendar : InWindow(c)} : StartOf(b) <= StartOf(other)

(***************************************************************************)
(* Properties of create and cancel (checked under SpecBook).               *)
(***************************************************************************)
Running == op.name = "run"

\* the locator run right after a creation, for the time the booking was
\* created with and with no title, the list call having answered
LocatedAfterCreate ==
    /\ Locating
    /\ prev.created
    /\ op.time_iso = prev.time_iso
    /\ ~op.summary.given
    /\ op.listed

\* C7 as stated: locating with the start time just used to create a booking,
\* and no title, returns the identifier of that booking.
C7_RoundTripReturnsCreated ==
    LocatedAfterCreate => result.value = Found(prev.id)

\* C7 as amended: it does so when the time is written with its UTC offset and
\* no other booking of the calendar ends after 30 minutes before that time
\* and starts before 30 minutes after it.
C7_RoundTripWhenAloneInWindow ==
    (/\ LocatedAfterCreate
     /\ FromIsoFormat(op.time_iso).value.aware
     /\ \A b \in calendar : InWindow(b) => b.id = prev.id)
    => result.value = Found(prev.id)

\* the created booking found while the calendar holds another booking, which
\* lies outside the window
C7_Witness_FoundBesideOther ==
    /\ LocatedAfterCreate
    /\ FromIsoFormat(op.time_iso).value.aware
    /\ Cardinality(calendar) >= 2
    /\ \A b \in calendar : InWindow(b) => b.id = prev.id
    /\ result.value = Found(prev.id)

Requested(log, api) == {i \in 1..Len(log) : log[i].api = api}

\* C8: a cancellation whose locator run finds a booking requests exactly one
\* deletion, of that booking, and no insertion, and the bookings change by that
\* deletion alone; one whose locator run finds none answers "not found",
\* requests no deletion and no insertion, and leaves the bookings as they were.
C8_CancelDeletesTheLocated ==
    [][(/\ pending.call = "run"
        /\ Get(pending.event_details, "action", "criar") = "cancelar"
        /\ op'.name = "run"
        /\ op'.ranLocator)
       => IF op'.located.found.found
          THEN /\ Cardinality(Requested(calls', "delete")) = 1
               /\ \A i \in Requested(calls', "delete") :
                     /\ calls'[i].eventId = op'.located.found.id
                     /\ calendar' = IF calls'[i].ok
                                    THEN {b \in calendar : b.id # op'.located.found.id}
                                    ELSE calendar
               /\ Requested(calls', "insert") = {}
               /\ nextId' = nextId
          ELSE /\ result'.value = NotFoundReply
               /\ Requested(calls', "delete") = {}
               /\ Requested(calls', "insert") = {}
               /\ calendar' = calendar
               /\ nextId' = nextId]_vars

\* a cancellation by title that deleted the second booking the provider listed
C8_Witness_DeletedTheLocated ==
    /\ Running
    /\ op.ranLocator
    /\ Len(op.located.events) >= 2
    /\ op.located.found = Found(op.located.events[2].id)
    /\ Len(calls) = 2
    /\ calls[2] = DeleteCall(op.located.found.id, TRUE)
    /\ ~(\E b \in calendar : b.id = op.located.found.id)

\* C9: a create or cancel request during which a provider call failed is
\* answered with the failure notice; "not found" is answered only when the
\* list call answered and returned no booking; and nothing is called after a
\* call that failed.
C9_ProviderFailureIsReported ==
    Running =>
        /\ (\E i \in 1..Len(calls) : ~calls[i].ok) => result.value = ErrorReply
        /\ result.value = NotFoundReply
              => (op.ranLocator /\ op.located.listed /\ op.located.events = <<>>)
        /\ \A i \in 1..Len(calls) : ~calls[i].ok => i = Len(calls)

(***************************************************************************)
(* Properties of the message handler, under SpecWeb.                       *)
(***************************************************************************)
\* a post has been answered
Answered == pending = NoCall /\ op.name = "webhook"

\* a post went through processar_mensagem
Handled == Answered /\ op.processed

Keywords ==
    palavras_agendamento \cup palavras_cancelamento \cup palavras_horarios
    \cup palavras_precos

MatchesNoKeyword == \A palavra \in Keywords : ~Contains(Lower(op.incoming_msg), palavra)

Writes(log) == Requested(log, "insert") \cup Requested(log, "delete")

\* C11: handling a message that contains none of the scheduling, cancellation,
\* free-slot or price keywords invokes the delivery gateway exactly twice,
\* first for the forwarding number with the message in the text and then for
\* the sender with the acknowledgment, and calls neither the calendar provider
\* nor the extractor.
C11_ForwardInvokesGatewayTwice ==
    (Handled /\ MatchesNoKeyword) =>
        /\ Len(op.sent) = 2
        /\ op.sent[1].to = Recipient(ForwardNumber)
        /\ op.sent[1].body.kind = "mensagem_encaminhada"
        /\ op.sent[1].body.mensagem = op.incoming_msg
        /\ op.sent[2].to = Recipient(op.sender)
        /\ op.sent[2].body = MensagemEncaminhadaAck
        /\ calls = <<>>
        /\ op.kickoffs = 0
        /\ calendar = op.before

\* what request.values holds under key: a text that is there and not empty
Present(key) == key \in DOMAIN op.values /\ op.values[key] # <<>>

\* a text that is there and not made of whitespace only
NonBlank(key) ==
    /\ key \in DOMAIN op.values
    /\ \E i \in 1..Len(op.values[key]) : ~IsSpace(op.values[key][i])

Status == result.value

NothingProcessed ==
    /\ ~op.processed
    /\ op.sent = <<>>
    /\ op.kickoffs = 0
    /\ calls = <<>>
    /\ calendar = op.before

\* C12 as stated: a post whose Body or From is missing or empty is answered
\* 400 and nothing is processed, and every post with both fields present is
\* answered 200, whichever handler runs and whatever fails on the way.
C12_PresentFieldsAnswered200 ==
    Answered =>
        IF Present("Body") /\ Present("From")
        THEN Status = 200
        ELSE Status = 400 /\ NothingProcessed

\* C12, amended: a post whose Body or From is missing, empty or made of
\* whitespace only is answered 400 and nothing is processed; every other post
\* is processed and answered 200, whichever handler runs and whatever call of
\* the provider, the extractor or the gateway fails on the way; no post is
\* answered 500.
C12_NonBlankFieldsAnswered200 ==
    Answered =>
        /\ IF NonBlank("Body") /\ NonBlank("From")
           THEN Status = 200 /\ op.processed
           ELSE Status = 400 /\ NothingProcessed
        /\ Status # 500

\* a booking message answered 200 although the extractor raised and the
\* gateway took neither the greeting nor the apology
C12_Witness_AllFailedStill200 ==
    /\ Handled
    /\ op.path = "agendamento"
    /\ op.resultado = KickoffRaises
    /\ Len(op.sent) = 2
    /\ \A i \in 1..Len(op.sent) : ~op.sent[i].ok
    /\ op.sent[2].body = ErroGeral
    /\ Status = 200

\* the bookings that are on one of the two calendars only
Changed(before, after) == (before \ after) \cup (after \ before)

ExtractedOtherAction ==
    /\ op.resultado.kind = "json"
    /\ "action" \in DOMAIN op.resultado.event_data
    /\ op.resultado.event_data.action \notin {"criar", "cancelar"}

====
